---- MODULE Spec2Model ----
(***************************************************************************)
(* Floccus Bookmarks to Markdown (src/main.ts).                            *)
(*                                                                         *)
(* The module has two parts.                                               *)
(*  - writeFolderStructure, the pure renderer, over xml2js-shaped trees,   *)
(*    exercised by SpecRender.                                             *)
(*  - the plugin as a state machine: the vault (output folder, output      *)
(*    file, backup folder and its children), the settings, the runs of     *)
(*    processXBELFileData and the vault calls they issue without awaiting  *)
(*    them.  Spec lets every trigger of the plugin fire at any time;       *)
(*    SpecSeq is the plugin in an environment that fires a trigger only    *)
(*    when the previous run and its vault calls have settled.              *)
(***************************************************************************)
EXTENDS Integers, Sequences, FiniteSets, TLC

(***************************************************************************)
(* Bounds of the model.                                                    *)
(***************************************************************************)
\* longest bookmark list of a root element drawn by SpecRender
MaxBm == 2
\* longest subfolder list of a root element drawn by SpecRender
MaxWidth == 2
\* deepest single-folder chain drawn by SpecRender
MaxChain == 7
\* runs a behaviour may start
MaxRuns == 3
\* runs a behaviour may start when nothing holds a trigger back (Spec)
MaxFreeRuns == 2
\* run slots: runs that may be in flight together
MaxConc == 2
\* largest keepCount a settings edit stores
MaxKeep == 2
\* most files in the backup folder drawn by SpecPrune
MaxFiles == 4

(***************************************************************************)
(* Parsed XBEL (the object xml2js hands to writeFolderStructure).          *)
(* An element is either NonObject (xml2js turns an empty element into the  *)
(* string '', and result.xbel of a foreign root is undefined) or a record  *)
(*   title    : NoTitle when the element has no title property, else the   *)
(*              text title[0];                                             *)
(*   bookmark : the bookmark array, <<>> when the property is absent;      *)
(*   folder   : the folder array, <<>> when the property is absent.        *)
(* A bookmark is a record                                                  *)
(*   attrs : whether the `$` attribute object exists;                      *)
(*   href  : NoHref when `$` has no href, else the target;                 *)
(*   title : NoTitle when the title list is absent, else title[0].         *)
(***************************************************************************)
NoTitle == "<no title>"
NoHref == "<no href>"

SeqsUpTo(S, n) == UNION {[1..k -> S] : k \in 0..n}

Bm(attrs, href, title) == [attrs |-> attrs, href |-> href, title |-> title]
Elem(title, bookmark, folder) ==
    [obj |-> TRUE, title |-> title, bookmark |-> bookmark, folder |-> folder]
NonObject == [obj |-> FALSE, title |-> NoTitle, bookmark |-> <<>>, folder |-> <<>>]

BmGood == Bm(TRUE, "u1", "T1")
BmEmptyTitle == Bm(TRUE, "u2", "")
BmNoAttrs == Bm(FALSE, NoHref, "T3")
BmNoHref == Bm(TRUE, NoHref, "T4")
BmNoTitle == Bm(TRUE, "u5", NoTitle)
Bookmarks == {BmGood, BmEmptyTitle, BmNoAttrs, BmNoHref, BmNoTitle}

Titles == {NoTitle, "", "A"}
GrandElem == Elem("G", <<BmGood>>, <<>>)
SubElems ==
    {NonObject} \cup
    { Elem(t, b, f) : t \in {NoTitle, "B"}, b \in {<<>>, <<BmGood>>},
                      f \in {<<>>, <<GrandElem>>} }
WideTrees ==
    { Elem(t, b, f) : t \in Titles, b \in SeqsUpTo(Bookmarks, MaxBm),
                      f \in SeqsUpTo(SubElems, MaxWidth) }

RECURSIVE Chain(_)
Chain(d) == IF d = 0 THEN Elem(NoTitle, <<BmGood>>, <<>>)
            ELSE Elem(NoTitle, <<>>, <<Chain(d - 1)>>)
ChainTrees == {Chain(d) : d \in 0..MaxChain}

Trees == WideTrees \cup ChainTrees \cup {NonObject}

(***************************************************************************)
(* writeFolderStructure (src/main.ts 166-200).  The text is kept as the    *)
(* sequence of its '\n'-terminated lines, a line as the sequence of its    *)
(* pieces; data += '\n' alone is the empty line <<>>.  A call yields       *)
(* [threw |-> FALSE, data |-> lines] when it returns and Thrown when a     *)
(* TypeError leaves it.                                                    *)
(***************************************************************************)
Returned(lines) == [threw |-> FALSE, data |-> lines]
Thrown == [threw |-> TRUE, data |-> <<>>]

\* Repeat that stops at Markdown's six heading levels
RepeatClamped(n) == [i \in 1..(IF n > 6 THEN 6 ELSE n) |-> "#"]

\* '#'.repeat(n)
Repeat(n) == [i \in 1..n |-> "#"]

\* `${x}` of a value that may be undefined
Str(x) == IF x = NoHref THEN "undefined" ELSE x

\* FolderTitle with the placeholder given to the root only
FolderTitleRootOnly(element, level) ==
    IF element.title # NoTitle THEN element.title
    ELSE IF level = 0 THEN "Bookmarks" ELSE ""

\* const folderTitle = element.title ? element.title[0] : 'Bookmarks', line 172
FolderTitle(element, level) ==
    IF element.title # NoTitle THEN element.title ELSE "Bookmarks"

\* Heading with the blank line also before the root's heading
HeadingBlankAlways(element, level) ==
    IF element.folder # <<>> \/ element.bookmark # <<>>
    THEN << <<>>, Repeat(level + 1) \o <<" ", FolderTitle(element, level)>> >>
    ELSE <<>>

\* the heading block of an element, lines 171-179
Heading(element, level) ==
    IF element.folder # <<>> \/ element.bookmark # <<>>
    THEN (IF level # 0 THEN << <<>> >> ELSE <<>>)
         \o << Repeat(level + 1) \o <<" ", FolderTitle(element, level)>> >>
    ELSE <<>>

\* whether the forEach callback, lines 184-187, throws on this bookmark:
\* bookmark.$ or bookmark.title is undefined
LinkThrows(bookmark) == ~bookmark.attrs \/ bookmark.title = NoTitle

\* const linkTitle = `[${title}](${link})`, line 186
LinkLine(bookmark) == <<"[", bookmark.title, "](", Str(bookmark.href), ")">>

\* element.bookmark.forEach(...), lines 181-189
RECURSIVE BookmarkLines(_)
BookmarkLines(bs) ==
    IF bs = <<>> THEN Returned(<<>>)
    ELSE IF LinkThrows(Head(bs)) THEN Thrown
    ELSE LET rest == BookmarkLines(Tail(bs))
         IN IF rest.threw THEN Thrown
            ELSE Returned(<<LinkLine(Head(bs))>> \o rest.data)

RECURSIVE writeFolderStructure(_, _)
\* element.folder.forEach(...), lines 191-196
RECURSIVE FolderLines(_, _)
FolderLines(fs, level) ==
    IF fs = <<>> THEN Returned(<<>>)
    ELSE LET d == writeFolderStructure(Head(fs), level + 1)
         IN IF d.threw THEN Thrown
            ELSE LET rest == FolderLines(Tail(fs), level)
                 IN IF rest.threw THEN Thrown ELSE Returned(d.data \o rest.data)

\* writeFolderStructure with the subfolders' output before the links
SubfoldersFirst(element, level) ==
    IF ~element.obj THEN Returned(<<>>)
    ELSE LET bl == BookmarkLines(element.bookmark)
         IN IF bl.threw THEN Thrown
            ELSE LET fl == FolderLines(element.folder, level)
                 IN IF fl.threw THEN Thrown
                    ELSE Returned(Heading(element, level) \o fl.data \o bl.data)

writeFolderStructure(element, level) ==
    IF ~element.obj THEN Returned(<<>>)
    ELSE LET bl == BookmarkLines(element.bookmark)
         IN IF bl.threw THEN Thrown
            ELSE LET fl == FolderLines(element.folder, level)
                 IN IF fl.threw THEN Thrown
                    ELSE Returned(Heading(element, level) \o bl.data \o fl.data)

(***************************************************************************)
(* The name backupExistingFile gives a backup (src/main.ts 116-133).       *)
(*                                                                         *)
(* A file name is the sequence of its dot-separated segments, all          *)
(* non-empty: bookmarks.md is <<"bookmarks", "md">>.  A text is the        *)
(* sequence of its pieces.  An instant is a number of seconds since the    *)
(* epoch (the milliseconds never reach the name), a civil time the record  *)
(* of the fields a wall clock shows.                                       *)
(***************************************************************************)
Civil(y, mo, d, h, mi, s) == [y |-> y, mo |-> mo, d |-> d, h |-> h, mi |-> mi, s |-> s]

\* the days from 1970-01-01 to the civil date y-mo-d: how the host turns
\* the wall clock's reading into the instant new Date() holds, line 118
DaysFromCivil(y, mo, d) ==
    LET yy == IF mo <= 2 THEN y - 1 ELSE y
        era == yy \div 400
        yoe == yy - era * 400
        doy == (153 * (IF mo > 2 THEN mo - 3 ELSE mo + 9) + 2) \div 5 + d - 1
        doe == yoe * 365 + yoe \div 4 - yoe \div 100 + doy
    IN era * 146097 + doe - 719468

\* the instant at which a UTC clock shows the civil time c
EpochSeconds(c) ==
    DaysFromCivil(c.y, c.mo, c.d) * 86400 + c.h * 3600 + c.mi * 60 + c.s

\* new Date() and now.getTimezoneOffset(), lines 118-119, when the local
\* clock shows `local` and the zone is `offset` minutes behind UTC
Clock(local, offset) ==
    [local |-> local, time |-> EpochSeconds(local) + offset * 60, offset |-> offset]

Digit(n) == <<"0", "1", "2", "3", "4", "5", "6", "7", "8", "9">>[n + 1]
Pad2(n) == <<Digit((n \div 10) % 10), Digit(n % 10)>>
Pad4(n) == Pad2(n \div 100) \o Pad2(n % 100)

\* Date.prototype.toISOString of the instant t, line 121: the UTC fields
\* as yyyy-mm-ddTHH:MM:SS.mmmZ
ToISOString(t) ==
    LET days == t \div 86400
        secs == t % 86400
        z == days + 719468
        era == z \div 146097
        doe == z - era * 146097
        yoe == (doe - doe \div 1460 + doe \div 36524 - doe \div 146096) \div 365
        doy == doe - (365 * yoe + yoe \div 4 - yoe \div 100)
        mp == (5 * doy + 2) \div 153
        d == doy - (153 * mp + 2) \div 5 + 1
        mo == IF mp < 10 THEN mp + 3 ELSE mp - 9
        y == yoe + era * 400 + (IF mo <= 2 THEN 1 ELSE 0)
    IN Pad4(y) \o <<"-">> \o Pad2(mo) \o <<"-">> \o Pad2(d) \o <<"T">>
       \o Pad2(secs \div 3600) \o <<":">> \o Pad2((secs % 3600) \div 60) \o <<":">>
       \o Pad2(secs % 60) \o <<".", "0", "0", "0", "Z">>

\* .slice(0, 19).replace(/[-T:]/g, ''), line 121
DateDigits(iso) == SelectSeq(SubSeq(iso, 1, 19), LAMBDA ch : ch \notin {"-", "T", ":"})

\* dateSuffix, lines 118-121
DateSuffix(clock) == DateDigits(ToISOString(clock.time - clock.offset * 60))

\* the segments of a name joined by dots
RECURSIVE Dotted(_)
Dotted(segments) ==
    IF segments = <<>> THEN <<>>
    ELSE IF Len(segments) = 1 THEN <<segments[1]>>
    ELSE <<segments[1], ".">> \o Dotted(Tail(segments))

Front(segments) == SubSeq(segments, 1, Len(segments) - 1)

\* TFile.basename and TFile.extension of a vault file, read at lines
\* 130-131: the name up to its last dot, and what follows that dot
Basename(name) == IF Len(name) > 1 THEN Front(name) ELSE name
Extension(name) == IF Len(name) > 1 THEN <<name[Len(name)]>> ELSE <<>>

\* parse(fileName).name of path, line 132: the name up to its last dot
ParsedName(name) == IF Len(name) > 1 THEN Front(name) ELSE name

\* backupFileName, lines 130-132
BackupFileName(name, clock) ==
    Dotted(ParsedName(Basename(name))) \o <<"-">> \o DateSuffix(clock)
    \o <<".">> \o Extension(name)

\* the output file names and the clock readings drawn by SpecBackupName
FileNames == {<<"bookmarks", "md">>, <<"my", "notes", "md">>,
              <<"a", "b", "c", "md">>, <<"README">>}
LocalTimes == {Civil(2023, 12, 31, 23, 59, 59), Civil(2024, 1, 1, 0, 0, 0),
               Civil(2024, 2, 29, 12, 0, 5), Civil(2024, 3, 1, 9, 5, 7),
               Civil(2000, 2, 29, 1, 30, 0), Civil(2037, 10, 25, 2, 59, 9)}
Offsets == {0 - 120, 0, 300, 0 - 345}

(***************************************************************************)
(* The plugin.                                                             *)
(*                                                                         *)
(* Vault.  getAbstractFileByPath and TFolder.children read the vault's     *)
(* in-memory tree synchronously; createFolder, rename, trash and create    *)
(* return promises, and the tree changes only when such a promise is       *)
(* fulfilled, in a later turn of the event loop.  processXBELFileData      *)
(* awaits none of createFolder, rename and trash, so each call leaves a    *)
(* pending operation in `pend` that completes, or is rejected, at any      *)
(* later time and in any order.                                            *)
(*                                                                         *)
(*   mdFolder  : the output folder exists                                  *)
(*   out       : the file at the output path (NoFile when there is none)   *)
(*   bakFolder : the backup folder exists                                  *)
(*   backups   : the children of the backup folder                         *)
(*   mclock    : source of last-modified times, one per created file; a    *)
(*               file keeps its mtime when renamed, so mtime names a file  *)
(*   sec       : the wall clock in seconds, as backupExistingFile reads it *)
(*   keepCount, automaticUpdate : the settings the runs and onload read    *)
(*   loaded, timerOn : onload has run; it registered the interval          *)
(*   runs      : per run slot, the run's position and what it has done:    *)
(*                 pc     idle, read (awaiting readFile), parse (awaiting  *)
(*                        parseStringPromise), create (awaiting            *)
(*                        vault.create), done                              *)
(*                 data   what readFile returned                           *)
(*                 text   mdData                                           *)
(*                 prior  mdFile, the output the run found at line 83      *)
(*                 listed whether deleteOldBackups read the children of    *)
(*                        the backup folder, and the files it found        *)
(*                 failed the vault calls of the run that were rejected    *)
(*                 abort  the step whose failure the catch at 111 logged   *)
(*                 wrote  vault.create was fulfilled                       *)
(*   pend      : the vault calls issued and not yet settled                *)
(*   started   : runs started so far                                       *)
(*   streak    : earlier runs in a row, at this keepCount, that found an   *)
(*               output, archived it, pruned and wrote without a failure   *)
(*                                                                         *)
(* The pure functions are exercised on variables of their own: tree and    *)
(* res (writeFolderStructure's argument and result), mdFile, wallClock and  *)
(* backupFileName (the name of the output file, the clock reading and the  *)
(* name backupExistingFile builds from them).                              *)
(***************************************************************************)
VARIABLES tree, res, mdFile, wallClock, backupFileName,
          mdFolder, out, bakFolder, backups, mclock, sec,
          keepCount, automaticUpdate, loaded, timerOn,
          runs, pend, started, streak

rvars == <<tree, res, mdFile, wallClock, backupFileName>>
pvars == <<mdFolder, out, bakFolder, backups, mclock, sec,
           keepCount, automaticUpdate, loaded, timerOn,
           runs, pend, started, streak>>
vars == <<rvars, pvars>>

Slots == 1..MaxConc
KeepValues == (0 - 1)..MaxKeep

File(mtime, content) == [exists |-> TRUE, mtime |-> mtime, content |-> content]
NoFile == [exists |-> FALSE, mtime |-> 0, content |-> <<>>]
Backup(name, file) == [name |-> name, mtime |-> file.mtime, content |-> file.content]

\* the inputs the XBEL path may hold
DocA == Elem("A", <<BmGood>>, <<Elem("B", <<BmEmptyTitle>>, <<>>)>>)
DocB == Elem(NoTitle, <<>>, <<Elem(NoTitle, <<BmGood>>, <<>>)>>)
DocBad == Elem("A", <<BmGood, BmNoAttrs>>, <<>>)
Input(state, doc) == [state |-> state, doc |-> doc]
Inputs == {Input("missing", NonObject), Input("garbage", NonObject),
           Input("ok", DocA), Input("ok", DocB), Input("ok", DocBad)}

\* a run slot before its first run
IdleRun == [pc |-> "idle", data |-> Input("missing", NonObject), text |-> <<>>,
            prior |-> NoFile, listed |-> [ran |-> FALSE, files |-> {}],
            failed |-> {}, abort |-> "", wrote |-> FALSE]

\* a pending vault call of run r: createFolder(path), rename(file, backup
\* name) or trash(file); a file is named by its mtime
Op(r, kind, path, mtime, name) ==
    [run |-> r, kind |-> kind, path |-> path, mtime |-> mtime, name |-> name]

\* SortByMtime with the newest file first
RECURSIVE SortNewestFirst(_)
SortNewestFirst(files) ==
    IF files = {} THEN <<>>
    ELSE LET first == CHOOSE f \in files : \A g \in files : f.mtime >= g.mtime
         IN <<first>> \o SortNewestFirst(files \ {first})

\* backupFiles.sort((a, b) => a.stat.mtime - b.stat.mtime), lines 150-154
RECURSIVE SortByMtime(_)
SortByMtime(files) ==
    IF files = {} THEN <<>>
    ELSE LET first == CHOOSE f \in files : \A g \in files : f.mtime <= g.mtime
         IN <<first>> \o SortByMtime(files \ {first})

\* FilesToDelete without the + 1
FilesToDeleteExact(n, keep) == n - keep

\* const filesToDelete = backupFiles.length - keepCount+1, line 157
FilesToDelete(n, keep) == n - keep + 1

\* backupFiles.slice(0, k) for k > 0
Slice(files, k) == SubSeq(files, 1, IF k < Len(files) THEN k ELSE Len(files))

\* deleteOldBackups, lines 140-164: the files it hands to vault.trash
ToTrash(folder, children, keep) ==
    IF ~folder THEN {}
    ELSE LET backupFiles == SortByMtime(children)
             filesToDelete == FilesToDelete(Len(backupFiles), keep)
         IN IF filesToDelete > 0
            THEN {Slice(backupFiles, filesToDelete)[i] :
                      i \in 1..Len(Slice(backupFiles, filesToDelete))}
            ELSE {}

\* a slot is free when its run has settled and every operation it issued
\* has completed
SlotFree(r) ==
    /\ runs[r].pc \in {"idle", "done"}
    /\ \A op \in pend : op.run # r
FreeSlot(r) == SlotFree(r) /\ \A q \in Slots : q < r => ~SlotFree(q)

InFlight == {r \in Slots : runs[r].pc \notin {"idle", "done"}}
Quiet == InFlight = {} /\ pend = {}

\* the run of slot r found an output, and archived, pruned and wrote
\* without a failing operation
Good(r) ==
    /\ runs[r].pc = "done"
    /\ runs[r].prior.exists
    /\ runs[r].failed = {}
    /\ runs[r].wrote

\* StartRun with a prune that also trashes the backup the run makes
StartRunPrunesOwn(r, k) ==
    /\ started < MaxRuns
    /\ FreeSlot(r)
    /\ started' = started + 1
    /\ streak' = IF k # keepCount THEN 0
                 ELSE IF Good(r) THEN streak + 1 ELSE 0
    /\ \E now \in (IF out.exists THEN {sec, sec + 1} ELSE {sec}) :
         /\ sec' = now
         /\ LET mkMd == IF ~mdFolder THEN {Op(r, "createFolder", "md", 0, 0)} ELSE {}
                mkBak == IF out.exists /\ ~bakFolder
                         THEN {Op(r, "createFolder", "backup", 0, 0)} ELSE {}
                move == IF out.exists THEN {Op(r, "rename", "", out.mtime, now)} ELSE {}
                trash == {Op(r, "trash", "", f.mtime, f.name) :
                              f \in ToTrash(bakFolder, backups, k)}
                         \cup (IF out.exists
                               THEN {Op(r, "trash", "", out.mtime, now)} ELSE {})
           IN pend' = pend \cup mkMd \cup mkBak \cup move \cup trash
    /\ runs' = [runs EXCEPT ![r] =
                   [pc |-> "read", data |-> Input("missing", NonObject), text |-> <<>>,
                    prior |-> out,
                    listed |-> [ran |-> bakFolder,
                                files |-> IF bakFolder THEN {f.mtime : f \in backups}
                                          ELSE {}],
                    failed |-> {}, abort |-> "", wrote |-> FALSE]]
    /\ UNCHANGED <<mdFolder, out, bakFolder, backups, mclock>>

(***************************************************************************)
(* processXBELFileData up to its first await, lines 69-101: one turn of    *)
(* the event loop.  It reads the vault tree, issues createFolder for a     *)
(* missing output folder (88), backupExistingFile for an existing output   *)
(* (93: createFolder for a missing backup folder 126, rename 136),         *)
(* deleteOldBackups (97: one trash per file to delete 161) and readFile    *)
(* (101).                                                                  *)
(***************************************************************************)
StartRun(r, k) ==
    /\ started < MaxRuns
    /\ FreeSlot(r)
    /\ started' = started + 1
    /\ streak' = IF k # keepCount THEN 0
                 ELSE IF Good(r) THEN streak + 1 ELSE 0
    /\ \E now \in (IF out.exists THEN {sec, sec + 1} ELSE {sec}) :
         /\ sec' = now
         /\ LET mkMd == IF ~mdFolder THEN {Op(r, "createFolder", "md", 0, 0)} ELSE {}
                mkBak == IF out.exists /\ ~bakFolder
                         THEN {Op(r, "createFolder", "backup", 0, 0)} ELSE {}
                move == IF out.exists THEN {Op(r, "rename", "", out.mtime, now)} ELSE {}
                trash == {Op(r, "trash", "", f.mtime, f.name) :
                              f \in ToTrash(bakFolder, backups, k)}
           IN pend' = pend \cup mkMd \cup mkBak \cup move \cup trash
    /\ runs' = [runs EXCEPT ![r] =
                   [pc |-> "read", data |-> Input("missing", NonObject), text |-> <<>>,
                    prior |-> out,
                    listed |-> [ran |-> bakFolder,
                                files |-> IF bakFolder THEN {f.mtime : f \in backups}
                                          ELSE {}],
                    failed |-> {}, abort |-> "", wrote |-> FALSE]]
    /\ UNCHANGED <<mdFolder, out, bakFolder, backups, mclock>>

\* the name of a vault call in a run's `failed`
Label(op) == IF op.kind = "createFolder" THEN op.path ELSE op.kind

\* the run that issued op records that the call was rejected
Rejected(op) == [runs EXCEPT ![op.run].failed = @ \cup {Label(op)}]

\* the promise of a pending vault call is rejected by the storage (IOError)
FailOp(op) ==
    /\ op \in pend
    /\ pend' = pend \ {op}
    /\ runs' = Rejected(op)
    /\ UNCHANGED <<mdFolder, out, bakFolder, backups, mclock, sec,
                   keepCount, automaticUpdate, loaded, timerOn, started, streak>>

\* vault.createFolder, called at lines 88 and 126, settles: the folder is
\* created, or the call is rejected because it exists by now
CompleteCreateFolder(op) ==
    /\ op \in pend
    /\ op.kind = "createFolder"
    /\ pend' = pend \ {op}
    /\ IF op.path = "md"
       THEN /\ mdFolder' = TRUE
            /\ runs' = IF mdFolder THEN Rejected(op) ELSE runs
            /\ UNCHANGED bakFolder
       ELSE /\ bakFolder' = TRUE
            /\ runs' = IF bakFolder THEN Rejected(op) ELSE runs
            /\ UNCHANGED mdFolder
    /\ UNCHANGED <<out, backups, mclock, sec,
                   keepCount, automaticUpdate, loaded, timerOn, started, streak>>

\* vault.rename(file, backupFilePath), called at line 136, settles.  The
\* file is the TFile the run read at line 83: it is moved from where it is
\* now; the call is rejected when the file is gone, the backup folder is
\* missing or the new path is taken by another file
CompleteRename(op) ==
    /\ op \in pend
    /\ op.kind = "rename"
    /\ pend' = pend \ {op}
    /\ LET taken == \E f \in backups : f.name = op.name /\ f.mtime # op.mtime
           atOut == out.exists /\ out.mtime = op.mtime
           inBak == {f \in backups : f.mtime = op.mtime}
       IN IF ~bakFolder \/ taken \/ (~atOut /\ inBak = {})
          THEN /\ runs' = Rejected(op)
               /\ UNCHANGED <<out, backups>>
          ELSE /\ runs' = runs
               /\ IF atOut
                  THEN /\ out' = NoFile
                       /\ backups' = backups \cup {Backup(op.name, out)}
                  ELSE /\ out' = out
                       /\ backups' = (backups \ inBak) \cup
                                     {[f EXCEPT !.name = op.name] : f \in inBak}
    /\ UNCHANGED <<mdFolder, bakFolder, mclock, sec,
                   keepCount, automaticUpdate, loaded, timerOn, started, streak>>

\* vault.trash(file, false), called at line 161, settles: the file leaves
\* the backup folder, or the call is rejected because it is gone
CompleteTrash(op) ==
    /\ op \in pend
    /\ op.kind = "trash"
    /\ pend' = pend \ {op}
    /\ LET hit == {f \in backups : f.mtime = op.mtime}
       IN /\ backups' = backups \ hit
          /\ runs' = IF hit = {} THEN Rejected(op) ELSE runs
    /\ UNCHANGED <<mdFolder, out, bakFolder, mclock, sec,
                   keepCount, automaticUpdate, loaded, timerOn, started, streak>>

\* await fsPromises.readFile(xbelFilePath, 'utf8'), line 101, settles with
\* what the XBEL path holds at that time (another program, Floccus, writes
\* it); a rejection goes to the catch at line 111
ReadDone(r) ==
    /\ runs[r].pc = "read"
    /\ \E xbel \in Inputs :
         runs' = [runs EXCEPT ![r] =
                     IF xbel.state = "missing"
                     THEN [@ EXCEPT !.pc = "done", !.abort = "read", !.data = xbel]
                     ELSE [@ EXCEPT !.pc = "parse", !.data = xbel]]
    /\ UNCHANGED <<mdFolder, out, bakFolder, backups, mclock, sec, pend,
                   keepCount, automaticUpdate, loaded, timerOn, started, streak>>

\* await parseStringPromise(xbelData), line 104, settles, then lines
\* 107-110 up to the await: writeFolderStructure and the call of
\* vault.create; a rejection or a throw goes to the catch at line 111
ParseDone(r) ==
    /\ runs[r].pc = "parse"
    /\ LET mdData == writeFolderStructure(runs[r].data.doc, 0)
       IN runs' = [runs EXCEPT ![r] =
                      IF runs[r].data.state = "garbage"
                      THEN [@ EXCEPT !.pc = "done", !.abort = "parse"]
                      ELSE IF mdData.threw
                      THEN [@ EXCEPT !.pc = "done", !.abort = "render"]
                      ELSE [@ EXCEPT !.pc = "create", !.text = mdData.data]]
    /\ UNCHANGED <<mdFolder, out, bakFolder, backups, mclock, sec, pend,
                   keepCount, automaticUpdate, loaded, timerOn, started, streak>>

\* await this.app.vault.create(mdFilePath, mdData), line 110, settles:
\* the file is created, or the call is rejected (a file is at the path,
\* the folder is missing) and the catch at line 111 logs it
CreateDone(r) ==
    /\ runs[r].pc = "create"
    /\ IF mdFolder /\ ~out.exists
       THEN /\ out' = File(mclock + 1, runs[r].text)
            /\ mclock' = mclock + 1
            /\ runs' = [runs EXCEPT ![r].pc = "done", ![r].wrote = TRUE,
                                    ![r].text = <<>>]
       ELSE /\ runs' = [runs EXCEPT ![r].pc = "done", ![r].abort = "create",
                                    ![r].text = <<>>]
            /\ UNCHANGED <<out, mclock>>
    /\ UNCHANGED <<mdFolder, bakFolder, backups, sec, pend,
                   keepCount, automaticUpdate, loaded, timerOn, started, streak>>

\* the storage rejects vault.create (IOError)
CreateFails(r) ==
    /\ runs[r].pc = "create"
    /\ runs' = [runs EXCEPT ![r].pc = "done", ![r].abort = "create",
                            ![r].failed = @ \cup {"create"}, ![r].text = <<>>]
    /\ UNCHANGED <<mdFolder, out, bakFolder, backups, mclock, sec, pend,
                   keepCount, automaticUpdate, loaded, timerOn, started, streak>>

(***************************************************************************)
(* The triggers.  `free` is the condition under which the environment      *)
(* lets a trigger fire: TRUE for the plugin as written, Quiet for an       *)
(* environment that waits for the previous run to settle.                  *)
(***************************************************************************)
\* onload, lines 32-56: loadSettings, the interval when automaticUpdate is
\* set, and the startup run
Onload(free) ==
    /\ ~loaded /\ free
    /\ loaded' = TRUE
    /\ timerOn' = automaticUpdate
    /\ \E r \in Slots : StartRun(r, keepCount)
    /\ UNCHANGED <<keepCount, automaticUpdate>>

\* the ribbon icon's callback, lines 36-40
RibbonClick(free) ==
    /\ loaded /\ free
    /\ \E r \in Slots : StartRun(r, keepCount)
    /\ UNCHANGED <<keepCount, automaticUpdate, loaded, timerOn>>

\* the callback of window.setInterval, line 51
TimerTick(free) ==
    /\ timerOn /\ free
    /\ \E r \in Slots : StartRun(r, keepCount)
    /\ UNCHANGED <<keepCount, automaticUpdate, loaded, timerOn>>

\* onChange of 'Number of Backups to Keep', lines 284-290, with
\* saveSettings, lines 64-67 (saveData, then the run): the text parses to
\* the number k
EditKeepCount(free) ==
    /\ loaded /\ free
    /\ \E k \in KeepValues \ {keepCount} :
         /\ keepCount' = k
         /\ \E r \in Slots : StartRun(r, k)
    /\ UNCHANGED <<automaticUpdate, loaded, timerOn>>

\* onChange of 'Automatic Update Bookmarks', lines 299-302, with
\* saveSettings, lines 64-67
ToggleAutomaticUpdate(free) ==
    /\ loaded /\ free
    /\ automaticUpdate' = ~automaticUpdate
    /\ \E r \in Slots : StartRun(r, keepCount)
    /\ UNCHANGED <<keepCount, loaded, timerOn>>

\* the state after construction, before onload: the vault and the saved
\* settings as an earlier session left them
PluginInit ==
    /\ out \in {NoFile, File(1, <<>>)}
    /\ mdFolder \in (IF out.exists THEN {TRUE} ELSE BOOLEAN)
    /\ bakFolder \in BOOLEAN
    /\ backups = {}
    /\ mclock = 1
    /\ sec = 0
    /\ keepCount \in KeepValues
    /\ automaticUpdate \in BOOLEAN
    /\ loaded = FALSE
    /\ timerOn = FALSE
    /\ runs = [r \in Slots |-> IdleRun]
    /\ pend = {}
    /\ started = 0
    /\ streak = 0

\* the plugin's variables while only the renderer is exercised
PluginOff ==
    /\ out = NoFile /\ mdFolder = FALSE /\ bakFolder = FALSE /\ backups = {}
    /\ mclock = 1 /\ sec = 0
    /\ keepCount = 5 /\ automaticUpdate = FALSE
    /\ loaded = FALSE /\ timerOn = FALSE
    /\ runs = [r \in Slots |-> IdleRun] /\ pend = {} /\ started = 0 /\ streak = 0

\* res before the call
NotRun == [threw |-> FALSE, data |-> << <<"not run">> >>]

\* backupFileName before the call
NotNamed == <<"not named">>

\* the naming variables while backupExistingFile's name is not exercised
NamingOff ==
    /\ mdFile = <<"bookmarks", "md">>
    /\ wallClock = Clock(Civil(2024, 1, 1, 0, 0, 0), 0)
    /\ backupFileName = NotNamed

RenderInit == tree \in Trees /\ res = NotRun /\ NamingOff /\ PluginOff

\* one call writeFolderStructure(result.xbel), line 107
Render ==
    /\ res = NotRun
    /\ res' = writeFolderStructure(tree, 0)
    /\ UNCHANGED <<tree, mdFile, wallClock, backupFileName, pvars>>

SpecRender == RenderInit /\ [][Render]_vars

\* an output file of any of the names, found at any of the clock readings
NamingInit ==
    /\ mdFile \in FileNames
    /\ wallClock \in {Clock(local, offset) : local \in LocalTimes, offset \in Offsets}
    /\ backupFileName = NotNamed
    /\ tree = NonObject /\ res = NotRun /\ PluginOff

\* backupExistingFile(mdFile, backupFolderPath) names the backup, lines 118-132
NameBackup ==
    /\ backupFileName = NotNamed
    /\ backupFileName' = BackupFileName(mdFile, wallClock)
    /\ UNCHANGED <<tree, res, mdFile, wallClock, pvars>>

SpecBackupName == NamingInit /\ [][NameBackup]_vars

\* a backup folder holding any files, or none, and any retention count
PruneInit ==
    /\ bakFolder \in BOOLEAN
    /\ backups \in (IF bakFolder
                    THEN {{Backup(m, File(m, <<>>)) : m \in ms} : ms \in SUBSET (1..MaxFiles)}
                    ELSE {{}})
    /\ keepCount \in 0..(MaxFiles + 1)
    /\ out = NoFile /\ mdFolder = TRUE /\ mclock = MaxFiles /\ sec = MaxFiles
    /\ automaticUpdate = FALSE /\ loaded = TRUE /\ timerOn = FALSE
    /\ runs = [r \in Slots |-> IdleRun] /\ pend = {} /\ started = 0 /\ streak = 0
    /\ tree = NonObject /\ res = NotRun /\ NamingOff

\* one call deleteOldBackups(backupFolderPath, keepCount), lines 140-164:
\* one vault.trash per file to delete, none of them awaited
DeleteOldBackups ==
    /\ runs[1].pc = "idle"
    /\ runs' = [runs EXCEPT ![1] =
                   [IdleRun EXCEPT !.pc = "done",
                                   !.listed = [ran |-> bakFolder,
                                               files |-> IF bakFolder
                                                         THEN {f.mtime : f \in backups}
                                                         ELSE {}]]]
    /\ pend' = {Op(1, "trash", "", f.mtime, f.name) :
                    f \in ToTrash(bakFolder, backups, keepCount)}
    /\ UNCHANGED <<mdFolder, out, bakFolder, backups, mclock, sec,
                   keepCount, automaticUpdate, loaded, timerOn, started, streak>>

PruneNext ==
    \/ DeleteOldBackups /\ UNCHANGED rvars
    \/ (\E op \in pend : CompleteTrash(op)) /\ UNCHANGED rvars
    \/ (\E op \in pend : FailOp(op)) /\ UNCHANGED rvars

SpecPrune == PruneInit /\ [][PruneNext]_vars

Init == PluginInit /\ tree = NonObject /\ res = NotRun /\ NamingOff

\* the plugin as written: nothing holds a trigger back but the bound
Unheld == started < MaxFreeRuns

Next ==
    \/ Onload(Unheld) /\ UNCHANGED rvars
    \/ RibbonClick(Unheld) /\ UNCHANGED rvars
    \/ TimerTick(Unheld) /\ UNCHANGED rvars
    \/ EditKeepCount(Unheld) /\ UNCHANGED rvars
    \/ ToggleAutomaticUpdate(Unheld) /\ UNCHANGED rvars
    \/ (\E op \in pend : FailOp(op)) /\ UNCHANGED rvars
    \/ (\E op \in pend : CompleteCreateFolder(op)) /\ UNCHANGED rvars
    \/ (\E op \in pend : CompleteRename(op)) /\ UNCHANGED rvars
    \/ (\E op \in pend : CompleteTrash(op)) /\ UNCHANGED rvars
    \/ (\E r \in Slots : ReadDone(r)) /\ UNCHANGED rvars
    \/ (\E r \in Slots : ParseDone(r)) /\ UNCHANGED rvars
    \/ (\E r \in Slots : CreateDone(r)) /\ UNCHANGED rvars
    \/ (\E r \in Slots : CreateFails(r)) /\ UNCHANGED rvars

Spec == Init /\ [][Next]_vars

\* the plugin with automatic update left off, in an environment that fires
\* a trigger only when the previous run and the operations it issued have
\* settled
InitSeq == Init /\ ~automaticUpdate

NextSeq ==
    \/ Onload(Quiet) /\ UNCHANGED rvars
    \/ RibbonClick(Quiet) /\ UNCHANGED rvars
    \/ EditKeepCount(Quiet) /\ UNCHANGED rvars
    \/ (\E op \in pend : FailOp(op)) /\ UNCHANGED rvars
    \/ (\E op \in pend : CompleteCreateFolder(op)) /\ UNCHANGED rvars
    \/ (\E op \in pend : CompleteRename(op)) /\ UNCHANGED rvars
    \/ (\E op \in pend : CompleteTrash(op)) /\ UNCHANGED rvars
    \/ (\E r \in Slots : ReadDone(r)) /\ UNCHANGED rvars
    \/ (\E r \in Slots : ParseDone(r)) /\ UNCHANGED rvars
    \/ (\E r \in Slots : CreateDone(r)) /\ UNCHANGED rvars
    \/ (\E r \in Slots : CreateFails(r)) /\ UNCHANGED rvars

SpecSeq == InitSeq /\ [][NextSeq]_vars

(***************************************************************************)
(* Properties of the runs.                                                 *)
(***************************************************************************)
Started(r) == runs[r].pc # "idle"
Settled(r) == runs[r].pc = "done"

\* a rotation step of the run was rejected: creating the backup folder,
\* moving the output into it, deleting an old backup
RotationFailed(r) == runs[r].failed \cap {"backup", "rename", "trash"} # {}

\* step 1, 2 or 3 of the run was rejected
EarlyStepFailed(r) == runs[r].failed \cap {"md", "backup", "rename", "trash"} # {}

\* the output the run found is still at the output path or in the backup
\* folder, with its content
PriorKept(r) ==
    runs[r].prior.exists =>
        \/ out = runs[r].prior
        \/ \E f \in backups : /\ f.mtime = runs[r].prior.mtime
                              /\ f.content = runs[r].prior.content

\* readFile of the run returned the input
InputRead(r) == runs[r].pc \in {"parse", "create", "done"} /\ runs[r].abort # "read"

\* C1: in every run, if a rotation step fails (creating the backup folder,
\* moving the existing output, deleting an old backup), the write is never
\* performed in that run, and the prior output's content still exists at
\* the output path or in the backup folder.
C1_RotationFailureStopsWrite ==
    \A r \in Slots : RotationFailed(r) => ~runs[r].wrote /\ PriorKept(r)

\* C2: in every run in which no storage operation is rejected by the
\* storage and the input is readable and parsable, when the run settles the
\* output path holds a newly created file whose content is the rendering of
\* the input the run read, whether or not an output existed before.
C2_SettledRunWroteRendering ==
    \A r \in Slots :
        Settled(r) /\ runs[r].failed = {} /\ runs[r].data.state = "ok" =>
            /\ runs[r].wrote
            /\ out.exists
            /\ out # runs[r].prior
            /\ ~writeFolderStructure(runs[r].data.doc, 0).threw
            /\ out.content = writeFolderStructure(runs[r].data.doc, 0).data

\* the runs in a row, the last one included, that found an output and
\* archived, pruned and wrote without a failure, at the present keepCount
GoodRuns == IF Good(1) THEN streak + 1 ELSE 0

\* the retention count has been in force for enough good runs, and the last
\* of them and its vault calls have settled
Steady == Quiet /\ keepCount >= 1 /\ GoodRuns >= keepCount

C4_ListingHasOwnBackup ==
    \A r \in Slots :
        Started(r) /\ runs[r].prior.exists /\ runs[r].listed.ran =>
            runs[r].prior.mtime \in runs[r].listed.files

\* C5: in every run where reading or parsing the input fails, no output is
\* written and, from the failure on, the set of backup entries does not
\* change.
C5_AbortLeavesBackups ==
    [][\A r \in Slots :
          runs[r].abort \in {"read", "parse"} /\ runs'[r].abort \in {"read", "parse"} =>
              /\ ~runs'[r].wrote
              /\ backups' = backups]_vars

\* C6: in every run where step 1 (create the output folder), step 2
\* (archive) or step 3 (prune) fails, the input is never read and the
\* output the run found is still at the output path, unchanged, when the
\* run ends.
C6_EarlyFailureLeavesOutput ==
    \A r \in Slots :
        EarlyStepFailed(r) =>
            /\ ~InputRead(r)
            /\ (Settled(r) /\ runs[r].prior.exists => out = runs[r].prior)

\* C7: at most one run is in flight at any time, whatever triggers the
\* plugin fires (onload, ribbon click, timer tick, settings edit).
C7_OneRunInFlight == Cardinality(InFlight) <= 1

\* C13: timer-triggered runs happen only while 'Automatic Update
\* Bookmarks' is enabled: once the plugin is loaded, the interval timer is
\* armed in exactly the states where automaticUpdate is set, so no tick
\* starts a run while the setting is off (also after it is switched off)
\* and ticks do start runs after it is switched on.
C13_TimerFollowsSetting == loaded => (timerOn <=> automaticUpdate)

\* C14: keepCount is a non-negative integer in every settings state an edit
\* of 'Number of Backups to Keep' leaves: no edit stores a negative
\* keepCount.
C14_EditStoresNonNegative ==
    [][keepCount' # keepCount => keepCount' \in Nat]_vars

\* C16: whenever an existing output is archived and the backup folder does
\* not exist, the creation of the backup folder has completed before the
\* move of the output into it is issued: no move is pending while the
\* backup folder is missing.
C16_FolderCreatedBeforeMove ==
    \A op \in pend : op.kind = "rename" => bakFolder

\* the output the run found is in the backup folder, with its content
PriorArchived(r) ==
    \E f \in backups : /\ f.mtime = runs[r].prior.mtime
                        /\ f.content = runs[r].prior.content

\* the run and the vault calls it issued have settled
AllSettled(r) == Settled(r) /\ \A op \in pend : op.run # r

Kept == {f.mtime : f \in backups}

Min(a, b) == IF a < b THEN a ELSE b
Max(a, b) == IF a > b THEN a ELSE b

\* C15: for a backup folder with n entries and a retentionCount k >= 0,
\* once deleteOldBackups has been called and the vault has fulfilled the
\* deletions it asked for, exactly max(0, min(n, n - k + 1)) of the entries
\* it listed are gone, every surviving entry is at least as new as every
\* deleted one, and when n - k + 1 <= 0 the entries are unchanged.
C15_PruneDeletesOldest ==
    LET listing == runs[1].listed.files
        n == Cardinality(listing)
        gone == listing \ Kept
    IN Settled(1) /\ pend = {} /\ runs[1].failed = {} /\ keepCount >= 0 =>
           /\ Kept \subseteq listing
           /\ Cardinality(gone) = Max(0, Min(n, n - keepCount + 1))
           /\ \A d \in gone : \A m \in Kept : m >= d
           /\ (n - keepCount + 1 <= 0 => Kept = listing)

\* C15, witness: a full backup folder pruned at keepCount 2: all but the
\* newest entry are gone
C15_Witness ==
    /\ Settled(1) /\ pend = {} /\ runs[1].failed = {}
    /\ keepCount = 2
    /\ runs[1].listed.files = 1..MaxFiles
    /\ Kept = {MaxFiles}

(***************************************************************************)
(* Properties of writeFolderStructure.                                     *)
(***************************************************************************)
Rendered == res # NotRun

IsHeading(line) == line # <<>> /\ line[1] = "#"
IsLink(line) == line # <<>> /\ line[1] = "["

\* a bookmark leaf with a target and a title list
WellFormed(b) == b.attrs /\ b.href # NoHref /\ b.title # NoTitle

HasTarget(b) == b.attrs /\ b.href # NoHref

HasChild(element) == element.obj /\ (element.folder # <<>> \/ element.bookmark # <<>>)

\* the heading and link lines of a text, in order: a heading as its weight
\* and title, a link as its title and target
RECURSIVE Outline(_)
Outline(lines) ==
    IF lines = <<>> THEN <<>>
    ELSE LET l == Head(lines)
             n == Cardinality({i \in 1..Len(l) : l[i] = "#"})
         IN (IF IsHeading(l) THEN << <<"heading", n, l[Len(l)]>> >>
             ELSE IF IsLink(l) THEN << <<"link", l[2], l[4]>> >>
             ELSE <<>>)
            \o Outline(Tail(lines))

\* the folders with a child and the leaves of a tree that `keep` names
\* ("well-formed", "target" for those with a target, or "all"), in document
\* order, untitled folders titled rootTitle at depth 0 and belowTitle below
Keeps(keep, b) ==
    IF keep = "well-formed" THEN WellFormed(b)
    ELSE IF keep = "target" THEN HasTarget(b)
    ELSE TRUE

RECURSIVE LeafItems(_, _)
LeafItems(bs, keep) ==
    IF bs = <<>> THEN <<>>
    ELSE (IF Keeps(keep, Head(bs)) THEN << <<"link", Head(bs).title, Head(bs).href>> >> ELSE <<>>)
         \o LeafItems(Tail(bs), keep)

RECURSIVE TreeItems(_, _, _, _, _)
RECURSIVE ForestItems(_, _, _, _, _)
ForestItems(fs, depth, keep, rootTitle, belowTitle) ==
    IF fs = <<>> THEN <<>>
    ELSE TreeItems(Head(fs), depth, keep, rootTitle, belowTitle)
         \o ForestItems(Tail(fs), depth, keep, rootTitle, belowTitle)

TreeItems(element, depth, keep, rootTitle, belowTitle) ==
    IF ~element.obj THEN <<>>
    ELSE (IF HasChild(element)
          THEN << <<"heading", depth + 1,
                    IF element.title # NoTitle THEN element.title
                    ELSE IF depth = 0 THEN rootTitle ELSE belowTitle>> >>
          ELSE <<>>)
         \o LeafItems(element.bookmark, keep)
         \o ForestItems(element.folder, depth + 1, keep, rootTitle, belowTitle)

Kinds(items) == [i \in 1..Len(items) |-> items[i][1]]
Headings(items) == SelectSeq(items, LAMBDA it : it[1] = "heading")

\* C8: for every bookmark tree, the output of writeFolderStructure holds
\* exactly one heading line per folder with a child, none for a folder
\* without, and exactly one link line per well-formed leaf, in document
\* order.
C8_OneLinePerNode ==
    Rendered =>
        /\ ~res.threw
        /\ Kinds(Outline(res.data)) =
               Kinds(TreeItems(tree, 0, "well-formed", "Bookmarks", "Bookmarks"))
        /\ SelectSeq(Outline(res.data), LAMBDA it : it[1] = "link") =
               SelectSeq(TreeItems(tree, 0, "well-formed", "Bookmarks", "Bookmarks"),
                         LAMBDA it : it[1] = "link")

\* C9 as stated: an untitled root folder renders the heading '# Bookmarks',
\* an untitled folder below the root a heading with empty text.
C9_PlaceholderAtRootOnly ==
    Rendered /\ ~res.threw =>
        Headings(Outline(res.data)) =
            Headings(TreeItems(tree, 0, "well-formed", "Bookmarks", ""))

\* C9 as amended: an untitled folder renders a heading with the text
\* 'Bookmarks' at every depth, the root as '# Bookmarks' and a folder at
\* depth d as d + 1 markers followed by 'Bookmarks'.
C9_PlaceholderAtEveryDepth ==
    Rendered /\ ~res.threw =>
        Headings(Outline(res.data)) =
            Headings(TreeItems(tree, 0, "well-formed", "Bookmarks", "Bookmarks"))

\* C9, witness: a rendered tree whose root and one of whose subfolders
\* have children and no title
C9_Witness ==
    /\ Rendered /\ ~res.threw
    /\ tree.obj /\ tree.title = NoTitle
    /\ \E i \in 1..Len(tree.folder) :
           HasChild(tree.folder[i]) /\ tree.folder[i].title = NoTitle
    /\ res.data[1] = <<"#", " ", "Bookmarks">>
    /\ \E j \in 1..Len(res.data) : res.data[j] = <<"#", "#", " ", "Bookmarks">>

\* C10: for every tree in which some leaves lack a target or a title list,
\* writeFolderStructure returns normally, emits no line for a leaf lacking
\* a target and still emits the lines of all other nodes.
C10_MalformedLeafSkipped ==
    Rendered =>
        /\ ~res.threw
        /\ Kinds(Outline(res.data)) =
               Kinds(TreeItems(tree, 0, "target", "Bookmarks", "Bookmarks"))

\* the heading lines of the rendering, in order
HeadingLines == SelectSeq(res.data, IsHeading)

\* the number of heading markers a line starts with
Marks(line) ==
    CHOOSE n \in 0..Len(line) :
        /\ \A i \in 1..n : line[i] = "#"
        /\ n < Len(line) => line[n + 1] # "#"

\* the depths of the folders of a tree that have a child, in document order
Depths(element) ==
    LET items == Headings(TreeItems(element, 0, "well-formed", "Bookmarks", "Bookmarks"))
    IN [i \in 1..Len(items) |-> items[i][2] - 1]

\* C12: for every folder rendered at nesting depth d (root = 0), its
\* heading line starts with exactly d + 1 heading markers followed by a
\* space, with no clamping at any depth.
C12_HeadingWeightIsDepthPlusOne ==
    Rendered /\ ~res.threw =>
        /\ Len(HeadingLines) = Len(Depths(tree))
        /\ \A i \in 1..Len(HeadingLines) :
               /\ Marks(HeadingLines[i]) = Depths(tree)[i] + 1
               /\ HeadingLines[i][Depths(tree)[i] + 2] = " "

\* C12, witness: the rendering of the deepest chain, more than six folders
\* deep, whose last heading carries one marker per level
C12_Witness ==
    /\ Rendered /\ ~res.threw
    /\ MaxChain > 6
    /\ tree = Chain(MaxChain)
    /\ Len(HeadingLines) = MaxChain + 1
    /\ Marks(HeadingLines[1]) = 1
    /\ Marks(HeadingLines[2]) = 2
    /\ Marks(HeadingLines[6]) = 6
    /\ Marks(HeadingLines[MaxChain + 1]) = MaxChain + 1

\* C17: for every tree, the rendered text never begins with a blank line;
\* the heading of a folder at depth > 0 is immediately preceded by exactly
\* one blank line (the line before that one is not blank), and the root's
\* heading is preceded by nothing.
C17_BlankLineBeforeSubHeadings ==
    Rendered /\ ~res.threw =>
        /\ res.data # <<>> => res.data[1] # <<>>
        /\ \A i \in 1..Len(res.data) :
               IsHeading(res.data[i]) =>
                   IF Marks(res.data[i]) = 1
                   THEN i = 1
                   ELSE /\ i > 2
                        /\ res.data[i - 1] = <<>>
                        /\ res.data[i - 2] # <<>>

\* C17, witness: a rendering that starts with the root's heading and holds
\* the headings of a subfolder and of a folder below it, each after one
\* blank line
C17_Witness ==
    /\ Rendered /\ ~res.threw
    /\ Len(res.data) > 6
    /\ Marks(res.data[1]) = 1
    /\ \E i, j \in 3..Len(res.data) :
           /\ i < j
           /\ Marks(res.data[i]) = 2 /\ res.data[i - 1] = <<>> /\ IsLink(res.data[i - 2])
           /\ Marks(res.data[j]) = 3 /\ res.data[j - 1] = <<>> /\ res.data[j - 2] # <<>>

\* the items with a link's target as it is printed
Shown(items) ==
    [i \in 1..Len(items) |->
        IF items[i][1] = "link"
        THEN <<"link", items[i][2], Str(items[i][3])>>
        ELSE items[i]]

\* C18: the output of a folder is its heading, then the link lines of its
\* direct bookmark children in their order, then the outputs of its
\* subfolders in their order, each rendered at depth + 1; nothing else is
\* put between them (the only other lines are the single blank lines that
\* precede the subfolders' headings).
C18_LinksThenSubfolders ==
    Rendered /\ ~res.threw =>
        /\ Outline(res.data) =
               Shown(TreeItems(tree, 0, "all", "Bookmarks", "Bookmarks"))
        /\ \A i \in 1..Len(res.data) :
               res.data[i] = <<>> => i < Len(res.data) /\ IsHeading(res.data[i + 1])

\* C18, witness: the rendering of a root with two bookmarks and two
\* subfolders, the first of which has a bookmark and a subfolder of its own
C18_Witness ==
    /\ Rendered /\ ~res.threw
    /\ tree = Elem("A", <<BmGood, BmEmptyTitle>>,
                   <<Elem("B", <<BmGood>>, <<GrandElem>>), Elem("B", <<BmGood>>, <<>>)>>)
    /\ Kinds(Outline(res.data)) =
           <<"heading", "link", "link", "heading", "link", "heading", "link",
             "heading", "link">>
    /\ [i \in 1..Len(HeadingLines) |-> Marks(HeadingLines[i])] = <<1, 2, 3, 2>>

Links(items) == SelectSeq(items, LAMBDA it : it[1] = "link")

\* the items with a link's display text as the claim has it: the title, or
\* the target when the title is empty
WithFallback(items) ==
    [i \in 1..Len(items) |->
        IF items[i][1] = "link" /\ items[i][2] = ""
        THEN <<"link", items[i][3], items[i][3]>>
        ELSE items[i]]

\* C19: for every bookmark leaf with target U the link line is [T](U),
\* where T is the leaf's title when that is non-empty and U when it is
\* empty; no link line has an empty display text.
C19_LinkTextFallsBackToTarget ==
    Rendered /\ ~res.threw =>
        /\ Links(Outline(res.data)) =
               WithFallback(Links(Shown(TreeItems(tree, 0, "all", "Bookmarks", "Bookmarks"))))
        /\ \A i \in 1..Len(res.data) : IsLink(res.data[i]) => res.data[i][2] # ""

(***************************************************************************)
(* Properties of the backup's name.                                        *)
(***************************************************************************)
Named == backupFileName # NotNamed

\* the 14 digits yyyymmddHHMMSS of a civil time
Digits14(c) ==
    Pad4(c.y) \o Pad2(c.mo) \o Pad2(c.d) \o Pad2(c.h) \o Pad2(c.mi) \o Pad2(c.s)

\* C11: archiving an output file with base name B (its full name minus its
\* final extension, also when B itself contains dots) and extension E when
\* the local clock shows t names the backup B-<t as the 14 digits
\* yyyymmddHHMMSS>.E.
C11_BackupNamedBaseStampExt ==
    Named =>
        backupFileName =
            Dotted(IF Len(mdFile) > 1 THEN Front(mdFile) ELSE mdFile) \o <<"-">>
            \o Digits14(wallClock.local) \o <<".">>
            \o (IF Len(mdFile) > 1 THEN <<mdFile[Len(mdFile)]>> ELSE <<>>)

====
